---- MODULE Spec2Model ----
(***************************************************************************)
(* Hal focus monitor: the Focus State Engine.                              *)
(*                                                                         *)
(*   backend   mind/evaluator.py    FocusEvaluator (classifier + cooldown) *)
(*             mind/routes.py       POST /mind/evaluate, get_evaluator     *)
(*             vision/analysis.py   FocusAnalyzer._parse_analysis          *)
(*   interface api_server.py        the shared state store and its HTTP    *)
(*                                  surface                                *)
(*             app.py               the dashboard's sampling loop          *)
(*                                                                         *)
(* Time is the wall clock read by time.time(), in whole seconds.           *)
(***************************************************************************)
EXTENDS Integers, Sequences, FiniteSets, TLC

(***************************************************************************)
(* Bounds of the model.                                                    *)
(***************************************************************************)
\* the wall clock stops advancing here
MaxTime == 60
\* capacity of events and of focus_history: the model's stand-in for the
\* literal 100 of api_server.py (lines 51, 87, 103, 130)
MaxHistory == 2
\* requests and calls the store serves in one run
MaxOps == 3

(***************************************************************************)
(* Values.                                                                 *)
(***************************************************************************)
\* Python None of an Optional[int] / Optional[float] attribute
None == -1
\* Python None in the "response" entry of a result (a str otherwise)
NullResponse == "<None>"

\* evaluator.py:35
response_cooldown == 30

\* wall-clock advances between two operations, and the latency of the
\* text-generation call made by _generate_response
Deltas == {5, 10, 30}
GenDurations == {0, 5}

\* configurations of models.yml `focus:` (config.py:87-90), yellow < green
ThresholdConfigs == {<<50, 25>>, <<80, 40>>}

\* focus_score values posted to /mind/evaluate
Scores == {10, 24, 25, 40, 49, 50, 80}
\* the request's "analysis" object: focus_score present or not
Analyses ==
  {[present |-> TRUE, focus_score |-> s] : s \in Scores}
    \cup {[present |-> FALSE, focus_score |-> 0]}

\* persona of the request (routes.py:30); the interface sends display names
Personas == {"hal", "Hal"}
\* what client.generate does: text, an empty text, or an exception
Outcomes == {"text", "empty", "fail"}

\* What the vision model's reply text contains, as _parse_analysis tells the
\* cases apart:
\*   json_int      a {...} object whose focus_score is the integer `value`
\*   json_noscore  a {...} object without focus_score
\*   json_badscore a {...} object whose focus_score int() rejects
\*   json_invalid  a {...} match that json.loads rejects
\*   bare          no {...}; the first standalone 1-3 digit number is `value`
\*   prose         no {...} and no standalone 1-3 digit number
\* has_obs: the object carries "observations"
JsonScores == {-5, 24, 25, 40, 49, 50, 80, 150}
BareNumbers == {0, 25, 50, 79, 150}
RawTexts ==
  {[kind |-> "json_int", value |-> v, has_obs |-> b] :
     v \in JsonScores, b \in BOOLEAN}
    \cup {[kind |-> "json_noscore", value |-> 0, has_obs |-> b] : b \in BOOLEAN}
    \cup {[kind |-> k, value |-> 0, has_obs |-> FALSE] :
            k \in {"json_badscore", "json_invalid", "prose"}}
    \cup {[kind |-> "bare", value |-> v, has_obs |-> FALSE] : v \in BareNumbers}

VARIABLES
  \* the dict returned by the last FocusAnalyzer._parse_analysis call
  parse_result,
  \* FocusEvaluator attributes (evaluator.py:27-35)
  green_threshold, yellow_threshold,
  current_state, last_score, yellow_since, last_response_time,
  \* the wall clock
  now,
  \* the dict returned by the last evaluate call, and when it was called
  result, called_at,
  \* the last operation that ran
  op,
  \* position in the concrete scenario of spec section 8 (Off once left)
  scn

VARIABLES
  \* _shared_state; its "events" and "focus_history" entries are references
  \* to list objects of `heap`
  shared, heap,
  \* _state_lock: Free or the thread holding it
  lock,
  \* per thread: where it is in its handler, the request it serves, the
  \* event or history entry it has built, the dict get_shared_state returned
  pc, req, ev, snap,
  \* bookkeeping of the run, not program state: operations started and each
  \* thread's operation number; the operation that last wrote "state"; every
  \* event and history entry appended so far; per thread, the contents its
  \* snapshot had when it was returned; the store a serial execution of the
  \* critical sections would hold
  nops, oid, state_writer, log_all, hist_all, snap_taken, serial

storeVars ==
  <<shared, heap, lock, pc, req, ev, snap,
    nops, oid, state_writer, log_all, hist_all, snap_taken, serial>>

evalVars ==
  <<parse_result, green_threshold, yellow_threshold, current_state, last_score,
    yellow_since, last_response_time, now, result, called_at, op, scn>>

VARIABLES
  \* mind/routes.py: the module global _evaluator (None or the number of a
  \* constructed FocusEvaluator) and the attributes of every FocusEvaluator
  \* constructed so far
  evaluator_ref, instances,
  \* per handler thread of the backend: where it is in POST /mind/evaluate
  \* and its local variables
  bpc, bloc,
  \* bookkeeping of the run: requests taken up, the instances get_evaluator
  \* has returned, the action texts generated (instance and the
  \* last_response_time the gate read)
  bops, got, gen_log

backVars == <<evaluator_ref, instances, bpc, bloc, bops, got, gen_log>>

VARIABLES
  \* the response the store's HTTP server sent last: the kind of body the
  \* request had and the status code
  resp

VARIABLES
  \* the dashboard session (interface/app.py): st.session_state's
  \* sampling_active, where the script run is, the button press this run was
  \* started with, and a press that has not started a run yet
  sampling_active, dpc, pressed, click,
  \* bookkeeping of the run: a sampling iteration has started
  sampled

dashVars == <<sampling_active, dpc, pressed, click, sampled>>

vars == <<evalVars, storeVars, resp, backVars, dashVars>>

\* what the actions of one component leave alone
notEval == <<storeVars, resp, backVars, dashVars>>
notStore == <<evalVars, backVars, dashVars>>
notBack == <<evalVars, storeVars, resp, dashVars>>
notDash == <<evalVars, resp, backVars>>

(***************************************************************************)
(* FocusEvaluator                                                          *)
(***************************************************************************)
\* Classify with the boundary put in the lower band
Classify_StrictBoundary(focus_score, green, yellow) ==
  IF focus_score > green THEN "GREEN"
  ELSE IF focus_score > yellow THEN "YELLOW"
  ELSE "RED"

\* evaluate, lines 78-86: the state of a score
Classify(focus_score, green, yellow) ==
  IF focus_score >= green THEN "GREEN"
  ELSE IF focus_score >= yellow THEN "YELLOW"
  ELSE "RED"

\* evaluate, lines 78-86: the yellow-entry timestamp
\* a variant that stamps the timestamp on every YELLOW result
YellowSince_EveryYellow(new_state, prev_state, since, t) ==
  IF new_state = "GREEN" THEN None
  ELSE IF new_state = "YELLOW" THEN t
  ELSE since

\* a variant that keeps the timestamp when the result is GREEN
YellowSince_KeptOnGreen(new_state, prev_state, since, t) ==
  IF new_state = "YELLOW" /\ prev_state = "GREEN" THEN t
  ELSE since

YellowSince(new_state, prev_state, since, t) ==
  IF new_state = "GREEN" THEN None
  ELSE IF new_state = "YELLOW" /\ prev_state = "GREEN" THEN t
  ELSE since

\* _should_generate_response with a strict comparison
ShouldGenerateResponse_Strict(last, t) ==
  \/ last = None
  \/ t - last > response_cooldown

\* _should_generate_response without the cooldown
ShouldGenerateResponse_Always(last, t) == TRUE

\* _should_generate_response that never lets a second response through
ShouldGenerateResponse_Once(last, t) == last = None

\* _should_generate_response
ShouldGenerateResponse(last, t) ==
  \/ last = None
  \/ t - last >= response_cooldown

\* config.normalize_voice_name: lower-cased, spaces to underscores
normalize_voice_name(voice_name) ==
  CASE voice_name = "Hal" -> "hal"
    [] voice_name = "Sarcastic Friend" -> "sarcastic_friend"
    [] voice_name = "Motivational Coach" -> "motivational_coach"
    [] voice_name = "Drill Sergeant" -> "drill_sergeant"
    [] OTHER -> voice_name

\* _fallback_response
FallbackResponse(persona) ==
  CASE persona = "hal" ->
         "I'm afraid I can't let you continue this distraction, Dave."
    [] persona = "sarcastic_friend" ->
         "Oh sure, take your time. It's not like you have work to do or anything."
    [] persona = "motivational_coach" ->
         "Hey! You've got this! Let's get back on track!"
    [] persona = "drill_sergeant" -> "Back to work, soldier! No excuses!"
    [] OTHER -> "Please return to your work."

\* _generate_response: the model's text, or the fallback when the call raises
GenerateResponse(outcome, persona) ==
  CASE outcome = "text" -> "generated text."
    [] outcome = "empty" -> ""
    [] OTHER -> FallbackResponse(persona)

\* line 104 stamping the time the gate was checked
ResponseTimestamp_AtGate(t_gate, d) == t_gate

\* evaluate, line 104: time.time() read after _generate_response returned,
\* d seconds after the gate was checked
ResponseTimestamp(t_gate, d) == t_gate + d

\* the scenario of spec section 8: <<call time, score>>
Scenario == <<<<0, 80>>, <<10, 40>>, <<20, 10>>, <<25, 10>>, <<55, 10>>>>
Off == None

ScenarioStep(k, t, score) ==
  IF k >= 0 /\ k < Len(Scenario) /\ Scenario[k + 1] = <<t, score>>
  THEN k + 1 ELSE Off

NoResult ==
  [state |-> "-", previous_state |-> "-", focus_score |-> None,
   response |-> NullResponse, persona |-> "-"]

NoAnalysis ==
  [focus_score |-> None, state |-> "-", observations |-> "-", focused |-> FALSE]

InitEvaluator ==
  /\ parse_result = NoAnalysis
  /\ \E c \in ThresholdConfigs :
       /\ green_threshold = c[1]
       /\ yellow_threshold = c[2]
  /\ current_state = "GREEN"
  /\ last_score = None
  /\ yellow_since = None
  /\ last_response_time = None
  /\ now = 0
  /\ result = NoResult
  /\ called_at = None
  /\ op = "init"
  /\ scn = 0

\* evaluate reading prev_state after current_state was assigned
Evaluate_PrevAfterAssign(analysis, persona) ==
  LET focus_score == IF analysis.present THEN analysis.focus_score ELSE 50
      new_state == Classify(focus_score, green_threshold, yellow_threshold)
      gate == /\ new_state = "RED"
              /\ ShouldGenerateResponse(last_response_time, now)
      base == [state |-> new_state,
               previous_state |-> new_state,
               focus_score |-> focus_score,
               response |-> NullResponse,
               persona |-> persona]
  IN  /\ last_score' = focus_score
      /\ yellow_since' = YellowSince(new_state, current_state, yellow_since, now)
      /\ current_state' = new_state
      /\ IF gate
         THEN \E outcome \in Outcomes, d \in GenDurations :
                /\ now + d <= MaxTime
                /\ result' =
                     [base EXCEPT !.response = GenerateResponse(outcome, persona)]
                /\ last_response_time' = ResponseTimestamp(now, d)
                /\ now' = now + d
         ELSE /\ result' = base
              /\ UNCHANGED <<last_response_time, now>>
      /\ called_at' = now
      /\ op' = "evaluate"
      /\ scn' = IF analysis.present THEN ScenarioStep(scn, now, focus_score)
                ELSE Off
      /\ UNCHANGED <<parse_result, green_threshold, yellow_threshold>>

\* FocusEvaluator.evaluate, called at wall-clock time `now`; the text
\* generation call is made only when the gate is passed
Evaluate(analysis, persona) ==
  LET focus_score == IF analysis.present THEN analysis.focus_score ELSE 50
      new_state == Classify(focus_score, green_threshold, yellow_threshold)
      gate == /\ new_state = "RED"
              /\ ShouldGenerateResponse(last_response_time, now)
      base == [state |-> new_state,
               previous_state |-> current_state,
               focus_score |-> focus_score,
               response |-> NullResponse,
               persona |-> persona]
  IN  /\ last_score' = focus_score
      /\ yellow_since' = YellowSince(new_state, current_state, yellow_since, now)
      /\ current_state' = new_state
      /\ IF gate
         THEN \E outcome \in Outcomes, d \in GenDurations :
                /\ now + d <= MaxTime
                /\ result' =
                     [base EXCEPT !.response = GenerateResponse(outcome, persona)]
                /\ last_response_time' = ResponseTimestamp(now, d)
                /\ now' = now + d
         ELSE /\ result' = base
              /\ UNCHANGED <<last_response_time, now>>
      /\ called_at' = now
      /\ op' = "evaluate"
      /\ scn' = IF analysis.present THEN ScenarioStep(scn, now, focus_score)
                ELSE Off
      /\ UNCHANGED <<parse_result, green_threshold, yellow_threshold>>

\* the wall clock advances between operations
Tick(delta) ==
  /\ now + delta <= MaxTime
  /\ now' = now + delta
  /\ op' = "tick"
  /\ UNCHANGED <<parse_result, green_threshold, yellow_threshold, current_state,
                 last_score, yellow_since, last_response_time, result,
                 called_at, scn>>

(***************************************************************************)
(* FocusAnalyzer                                                           *)
(***************************************************************************)
\* min that lets its second argument through
Min_NoCeiling(a, b) == b

Min(a, b) == IF a <= b THEN a ELSE b
Max(a, b) == IF a >= b THEN a ELSE b

\* _parse_analysis, lines 155-161: the state of the clamped score
ParseState(focus_score, green, yellow) ==
  IF focus_score >= green THEN "GREEN"
  ELSE IF focus_score >= yellow THEN "YELLOW"
  ELSE "RED"

\* _default_response with a score of 0
DefaultResponse_ZeroScore(reason) ==
  [focus_score |-> 0, state |-> "YELLOW", observations |-> reason,
   focused |-> FALSE]

\* _default_response
DefaultResponse(reason) ==
  [focus_score |-> 50, state |-> "YELLOW", observations |-> reason,
   focused |-> FALSE]

\* _parse_analysis; FocusAnalyzer reads the same thresholds as FocusEvaluator
ParseAnalysis(raw, green, yellow) ==
  IF raw.kind \in {"json_invalid", "json_badscore"}
  THEN DefaultResponse("Failed to parse analysis")
  ELSE
    LET parsed == CASE raw.kind = "json_int" -> raw.value
                    [] raw.kind = "json_noscore" -> 50
                    [] raw.kind = "bare" -> raw.value
                    [] OTHER -> 50
        observations ==
          IF raw.kind \in {"json_int", "json_noscore"}
          THEN (IF raw.has_obs THEN "given observations"
                ELSE "No details provided")
          ELSE "result_text[:200]"
        focus_score == Max(0, Min(100, parsed))
    IN  [focus_score |-> focus_score,
         state |-> ParseState(focus_score, green, yellow),
         observations |-> observations,
         focused |-> focus_score >= green]

\* POST /vision/analyze once the vision model has replied with `raw`
Analyze(raw) ==
  /\ parse_result' = ParseAnalysis(raw, green_threshold, yellow_threshold)
  /\ op' = "analyze"
  /\ UNCHANGED <<green_threshold, yellow_threshold, current_state, last_score,
                 yellow_since, last_response_time, now, result, called_at, scn>>

\* trigger_mind_response: the interface posts the analysis to /mind/evaluate
EvaluateAnalysis(persona) ==
  /\ parse_result # NoAnalysis
  /\ Evaluate([present |-> TRUE, focus_score |-> parse_result.focus_score], persona)

(***************************************************************************)
(* Shared state store (interface/api_server.py)                            *)
(***************************************************************************)
\* handler threads of the Flask server and the Streamlit script thread
Threads == {1, 2}
Free == 0

\* dict arguments of update_shared_state: capture_and_analyze's update
\* (app.py:127-133), the sampling toggle (app.py:330) with a key the store
\* does not have
Updates ==
  {[state |-> "RED", latest_analysis |-> "analysis", focus_score |-> 10],
   [sampling_active |-> TRUE, volume |-> 11]}
\* JSON bodies of POST /status, POST /log, POST /focus-history
StatusBodies ==
  {[state |-> "GREEN", focus_score |-> 80, image |-> "jpeg"],
   [focus_score |-> 80, analysis |-> "analysis"]}
LogBodies == {[message |-> "spoke", response |-> "Back to work"]}
HistoryBodies == {[score |-> 40]}

NoReq == [op |-> "none"]
NoEvent == [timestamp |-> None]
NoSnap == [state |-> "-"]
NoResponse == [path |-> "-", body |-> "-", code |-> None]

Has(d, key) == key \in DOMAIN d
\* dict.get(key, default)
Get(d, key, default) == IF key \in DOMAIN d THEN d[key] ELSE default

\* get_shared_state, lines 29-32: HH:MM:SS of the seconds since start_time
Uptime(seconds) ==
  <<seconds \div 3600, (seconds % 3600) \div 60, seconds % 60>>

\* the truncation keeping the oldest entries
Truncate_KeepOldest(list) ==
  IF Len(list) > MaxHistory THEN SubSeq(list, 1, MaxHistory) ELSE list

\* the list kept to its last MaxHistory entries (lines 51-52, 87-88,
\* 103-104, 130-131)
Truncate(list) ==
  IF Len(list) > MaxHistory
  THEN SubSeq(list, Len(list) - MaxHistory + 1, Len(list))
  ELSE list

\* a critical section entered without regard to the lock
LockFree_Ignored == TRUE

\* `with _state_lock:` can be entered
LockFree == lock = Free

InitStore ==
  /\ shared = [state |-> "UNKNOWN", uptime |-> Uptime(0),
               latest_image |-> "None", latest_analysis |-> "{}",
               persona |-> "Hal", events |-> 1, last_response |-> "None",
               start_time |-> 0, sampling_active |-> FALSE,
               focus_score |-> None, focus_history |-> 2]
  /\ heap = << <<>>, <<>> >>
  /\ lock = Free
  /\ pc = [t \in Threads |-> "idle"]
  /\ req = [t \in Threads |-> NoReq]
  /\ ev = [t \in Threads |-> NoEvent]
  /\ snap = [t \in Threads |-> NoSnap]
  /\ nops = 0
  /\ oid = [t \in Threads |-> 0]
  /\ state_writer = 0
  /\ log_all = <<>>
  /\ hist_all = <<>>
  /\ snap_taken = [t \in Threads |-> NoSnap]
  /\ resp = NoResponse
  /\ serial = [fields |-> [state |-> "UNKNOWN", uptime |-> Uptime(0),
                           latest_image |-> "None", latest_analysis |-> "{}",
                           persona |-> "Hal", last_response |-> "None",
                           start_time |-> 0, sampling_active |-> FALSE,
                           focus_score |-> None],
               events |-> <<>>, focus_history |-> <<>>]

\* `return jsonify(...), code`, or the error response of the framework
Respond(path, body, code) ==
  resp' = [path |-> path, body |-> body, code |-> code]

\* a thread takes up a new request or call
Begin(t, r) ==
  /\ pc[t] = "idle"
  /\ nops < MaxOps
  /\ nops' = nops + 1
  /\ oid' = [oid EXCEPT ![t] = nops + 1]
  /\ req' = [req EXCEPT ![t] = r]

Finish(t) ==
  /\ pc' = [pc EXCEPT ![t] = "idle"]
  /\ req' = [req EXCEPT ![t] = NoReq]
  /\ ev' = [ev EXCEPT ![t] = NoEvent]

\* list.append(entry) on the list object `ref`
ListAppend(ref, entry) == heap' = [heap EXCEPT ![ref] = Append(@, entry)]

\* `if len(l) > 100: _shared_state[key] = l[-100:]`: the slice is a new list
TruncateField(sh, key) ==
  IF Len(heap[sh[key]]) > MaxHistory
  THEN /\ heap' = Append(heap, Truncate(heap[sh[key]]))
       /\ shared' = [sh EXCEPT ![key] = Len(heap) + 1]
  ELSE /\ heap' = heap
       /\ shared' = sh

\* what the critical sections do to a store without interleaving
SerialAppend(s, key, entry) ==
  [s EXCEPT ![key] = Truncate(Append(@, entry))]
SerialFields(s, f) ==
  [s EXCEPT !.fields = [k \in DOMAIN @ |-> IF k \in DOMAIN f THEN f[k] ELSE @[k]]]

(* update_shared_state ****************************************************)
\* lines 38-41: the lock is taken and the known keys are assigned
UpdateFields(t, updates) ==
  /\ Begin(t, [op |-> "update", data |-> updates])
  /\ LockFree
  /\ lock' = t
  /\ shared' = [k \in DOMAIN shared |->
                  IF k \in DOMAIN updates THEN updates[k] ELSE shared[k]]
  /\ state_writer' = IF Has(updates, "state") THEN nops + 1 ELSE state_writer
  /\ pc' = [pc EXCEPT ![t] = "upd_event"]
  /\ UNCHANGED <<heap, ev, snap, log_all, hist_all, snap_taken, serial>>

\* lines 44-50: the event of a state change is appended
UpdateEvent(t) ==
  /\ pc[t] = "upd_event"
  /\ IF Has(req[t].data, "state")
     THEN LET event == [timestamp |-> now,
                        message |-> <<"State changed to", req[t].data.state>>,
                        by |-> oid[t], st |-> TRUE]
          IN  /\ ListAppend(shared.events, event)
              /\ log_all' = Append(log_all, event)
              /\ ev' = [ev EXCEPT ![t] = event]
              /\ pc' = [pc EXCEPT ![t] = "upd_trunc"]
              /\ UNCHANGED <<lock, req, serial>>
     ELSE /\ lock' = Free
          /\ serial' = SerialFields(serial, req[t].data)
          /\ Finish(t)
          /\ UNCHANGED <<heap, log_all>>
  /\ UNCHANGED <<shared, snap, nops, oid, state_writer, hist_all, snap_taken>>

\* lines 51-52, and the lock is released
UpdateTruncate(t) ==
  /\ pc[t] = "upd_trunc"
  /\ TruncateField(shared, "events")
  /\ lock' = Free
  /\ serial' = SerialAppend(SerialFields(serial, req[t].data), "events", ev[t])
  /\ Finish(t)
  /\ UNCHANGED <<snap, nops, oid, state_writer, log_all, hist_all, snap_taken>>

(* get_shared_state *******************************************************)
\* lines 28-33: under the lock, uptime is refreshed and the dict is copied
\* with dict.copy(), which copies the references to the two lists
GetSharedState(t) ==
  /\ Begin(t, [op |-> "get"])
  /\ LockFree
  /\ shared' = [shared EXCEPT !.uptime = Uptime(now - shared.start_time)]
  /\ snap' = [snap EXCEPT ![t] = shared']
  /\ snap_taken' = [snap_taken EXCEPT ![t] =
                      [events |-> heap[shared.events],
                       focus_history |-> heap[shared.focus_history],
                       state_writer |-> state_writer,
                       appended |-> Len(log_all)]]
  /\ serial' = SerialFields(serial, [uptime |-> Uptime(now - shared.start_time)])
  /\ pc' = [pc EXCEPT ![t] = "holding"]
  /\ UNCHANGED <<heap, lock, ev, state_writer, log_all, hist_all>>

\* the caller is done with the snapshot (GET /state has serialised it,
\* main_dashboard has rendered it)
ReleaseSnapshot(t) ==
  /\ pc[t] = "holding"
  /\ snap' = [snap EXCEPT ![t] = NoSnap]
  /\ snap_taken' = [snap_taken EXCEPT ![t] = NoSnap]
  /\ Finish(t)
  /\ UNCHANGED <<shared, heap, lock, nops, oid, state_writer, log_all,
                 hist_all, serial>>

(* POST /status ***********************************************************)
\* the body key each field is read from (lines 70-77)
BodyKey(field) ==
  CASE field = "latest_analysis" -> "analysis"
    [] field = "latest_image" -> "image"
    [] OTHER -> field

\* the fields a body writes (lines 70-77)
StatusFields(data) ==
  [k \in {f \in {"state", "latest_analysis", "latest_image", "focus_score"} :
            Has(data, BodyKey(f))} |-> data[BodyKey(k)]]

\* lines 69-77: the first critical section
StatusFieldsStep(t, data) ==
  /\ Begin(t, [op |-> "status", data |-> data])
  /\ LockFree
  /\ shared' = [k \in DOMAIN shared |->
                  IF k \in DOMAIN StatusFields(data)
                  THEN StatusFields(data)[k] ELSE shared[k]]
  /\ state_writer' = IF Has(data, "state") THEN nops + 1 ELSE state_writer
  /\ serial' = SerialFields(serial, StatusFields(data))
  /\ pc' = [pc EXCEPT ![t] = "st_stamp"]
  /\ UNCHANGED <<heap, lock, ev, snap, log_all, hist_all, snap_taken>>

\* lines 79-83: the event is built outside the lock
StatusStamp(t) ==
  /\ pc[t] = "st_stamp"
  /\ ev' = [ev EXCEPT ![t] =
              [timestamp |-> now,
               message |-> <<"State changed to",
                             Get(req[t].data, "state", "UNKNOWN")>>,
               by |-> oid[t], st |-> Has(req[t].data, "state")]]
  /\ pc' = [pc EXCEPT ![t] = "st_append"]
  /\ UNCHANGED <<shared, heap, lock, req, snap, nops, oid, state_writer,
                 log_all, hist_all, snap_taken, serial>>

\* lines 85-86: the second critical section
StatusAppend(t) ==
  /\ pc[t] = "st_append"
  /\ LockFree
  /\ lock' = t
  /\ ListAppend(shared.events, ev[t])
  /\ log_all' = Append(log_all, ev[t])
  /\ pc' = [pc EXCEPT ![t] = "st_trunc"]
  /\ UNCHANGED <<shared, req, ev, snap, nops, oid, state_writer, hist_all,
                 snap_taken, serial>>

\* lines 87-90
StatusTruncate(t) ==
  /\ pc[t] = "st_trunc"
  /\ TruncateField(shared, "events")
  /\ lock' = Free
  /\ serial' = SerialAppend(serial, "events", ev[t])
  /\ Respond("/status", "object", 200)
  /\ Finish(t)
  /\ UNCHANGED <<snap, nops, oid, state_writer, log_all, hist_all, snap_taken>>

(* POST /log **************************************************************)
\* lines 95-99
LogStamp(t, data) ==
  /\ Begin(t, [op |-> "log", data |-> data])
  /\ ev' = [ev EXCEPT ![t] =
              [timestamp |-> now, message |-> <<Get(data, "message", "")>>,
               by |-> nops + 1, st |-> FALSE]]
  /\ pc' = [pc EXCEPT ![t] = "log_append"]
  /\ UNCHANGED <<shared, heap, lock, snap, state_writer, log_all, hist_all,
                 snap_taken, serial>>

\* lines 101-102
LogAppend(t) ==
  /\ pc[t] = "log_append"
  /\ LockFree
  /\ lock' = t
  /\ ListAppend(shared.events, ev[t])
  /\ log_all' = Append(log_all, ev[t])
  /\ pc' = [pc EXCEPT ![t] = "log_trunc"]
  /\ UNCHANGED <<shared, req, ev, snap, nops, oid, state_writer, hist_all,
                 snap_taken, serial>>

\* lines 103-109
LogTruncate(t) ==
  /\ pc[t] = "log_trunc"
  /\ TruncateField([shared EXCEPT !.last_response =
                      Get(req[t].data, "response", @)], "events")
  /\ lock' = Free
  /\ serial' = SerialFields(SerialAppend(serial, "events", ev[t]),
                            [last_response |->
                               Get(req[t].data, "response",
                                   serial.fields.last_response)])
  /\ Respond("/log", "object", 200)
  /\ Finish(t)
  /\ UNCHANGED <<snap, nops, oid, state_writer, log_all, hist_all, snap_taken>>

(* POST /focus-history ****************************************************)
\* lines 122-126
HistoryStamp(t, data) ==
  /\ Begin(t, [op |-> "history", data |-> data])
  /\ ev' = [ev EXCEPT ![t] =
              [timestamp |-> Get(data, "timestamp", now),
               score |-> Get(data, "score", 0), by |-> nops + 1]]
  /\ pc' = [pc EXCEPT ![t] = "hist_append"]
  /\ UNCHANGED <<shared, heap, lock, snap, state_writer, log_all, hist_all,
                 snap_taken, serial>>

\* lines 128-129
HistoryAppend(t) ==
  /\ pc[t] = "hist_append"
  /\ LockFree
  /\ lock' = t
  /\ ListAppend(shared.focus_history, ev[t])
  /\ hist_all' = Append(hist_all, ev[t])
  /\ pc' = [pc EXCEPT ![t] = "hist_trunc"]
  /\ UNCHANGED <<shared, req, ev, snap, nops, oid, state_writer, log_all,
                 snap_taken, serial>>

\* lines 130-133
HistoryTruncate(t) ==
  /\ pc[t] = "hist_trunc"
  /\ TruncateField(shared, "focus_history")
  /\ lock' = Free
  /\ serial' = SerialAppend(serial, "focus_history", ev[t])
  /\ Respond("/focus-history", "object", 200)
  /\ Finish(t)
  /\ UNCHANGED <<snap, nops, oid, state_writer, log_all, hist_all, snap_taken>>

(* requests whose body is not a JSON object ********************************)
\* "invalid": the body is not JSON; "null": the body is the JSON value null
BadBodies == {"invalid", "null"}

\* a handler that ends in the step that took the request up
Served(t) ==
  /\ pc[t] = "idle"
  /\ nops < MaxOps
  /\ nops' = nops + 1
  /\ UNCHANGED <<shared, heap, lock, pc, req, ev, snap, oid, state_writer,
                 log_all, hist_all, snap_taken, serial>>

\* update_status: request.json (line 68) raises BadRequest on a body that is
\* not JSON; on null it returns None and `"state" in data` (line 70) raises
\* TypeError inside `with _state_lock:`, which releases the lock
StatusBadBody(t, body) ==
  /\ Served(t)
  /\ IF body = "invalid"
     THEN Respond("/status", body, 400)
     ELSE /\ LockFree
          /\ Respond("/status", body, 500)

\* add_log: request.json (line 95) raises BadRequest, or data.get (line 97)
\* raises AttributeError on None
LogBadBody(t, body) ==
  /\ Served(t)
  /\ Respond("/log", body, IF body = "invalid" THEN 400 ELSE 500)

\* add_focus_history: request.json (line 122) raises BadRequest, or data.get
\* (line 123) raises AttributeError on None
HistoryBadBody(t, body) ==
  /\ Served(t)
  /\ Respond("/focus-history", body, IF body = "invalid" THEN 400 ELSE 500)

(***************************************************************************)
(* The dashboard's script runs (interface/app.py)                          *)
(***************************************************************************)
\* the Streamlit script thread, as a caller of the store
Script == 1

\* what the user can press: the sampling button under either label, or any
\* other widget
Widgets == {"Start Sampling", "Stop Sampling", "other"}
NoWidget == "-"

\* what the backend gives capture_and_analyze: a request failed (lines
\* 87-88, 100-101, 141-142), or the analysis with its focus_score
Samples ==
  {[ok |-> FALSE, focus_score |-> 0]}
    \cup {[ok |-> TRUE, focus_score |-> f] : f \in {10, 80}}
\* the "response" of POST /mind/evaluate as trigger_mind_response reads it
MindResponses == {"", "Back to work"}

\* capture_and_analyze, lines 106-112: the state of a sample
\* `if response_text:` (line 160): None and "" are both false
HasResponseText(r) == r.response # NullResponse /\ r.response # ""

SampleState(focus_score) ==
  IF focus_score >= 50 THEN "GREEN"
  ELSE IF focus_score >= 25 THEN "YELLOW"
  ELSE "RED"

\* initialize_session_state, lines 50-51
InitDashboard ==
  /\ sampling_active = FALSE
  /\ dpc = "waiting"
  /\ pressed = NoWidget
  /\ click = NoWidget
  /\ sampled = FALSE

\* the user presses a widget, whether a script run is under way or not
Press(w) ==
  /\ click = NoWidget
  /\ click' = w
  /\ UNCHANGED <<sampling_active, dpc, pressed, sampled>>

\* a script run starts from the top with the pending press, if any
StartRun ==
  /\ dpc' = "buttons"
  /\ pressed' = click
  /\ click' = NoWidget

\* the idle script is rerun by a press
RunOnPress ==
  /\ dpc = "waiting"
  /\ click # NoWidget
  /\ StartRun
  /\ UNCHANGED <<sampling_active, sampled>>

\* the Stop handler that leaves st.session_state alone
SamplingButton_StoreOnly ==
  /\ dpc = "buttons"
  /\ IF sampling_active /\ pressed = "Stop Sampling"
     THEN /\ UNCHANGED sampling_active
          /\ UpdateFields(Script, [sampling_active |-> FALSE])
          /\ dpc' = "rerun"
     ELSE IF ~sampling_active /\ pressed = "Start Sampling"
     THEN /\ sampling_active' = TRUE
          /\ UpdateFields(Script, [sampling_active |-> TRUE])
          /\ dpc' = "rerun"
     ELSE /\ dpc' = "check"
          /\ UNCHANGED <<sampling_active, storeVars>>
  /\ UNCHANGED <<pressed, click, sampled>>

\* main_dashboard, lines 321-331: the button shown is the one for the
\* current sampling_active; pressed, it sets the session's flag and the
\* store's (the call returns in UpdateEvent) and asks for a rerun
SamplingButton ==
  /\ dpc = "buttons"
  /\ IF sampling_active /\ pressed = "Stop Sampling"
     THEN /\ sampling_active' = FALSE
          /\ UpdateFields(Script, [sampling_active |-> FALSE])
          /\ dpc' = "rerun"
     ELSE IF ~sampling_active /\ pressed = "Start Sampling"
     THEN /\ sampling_active' = TRUE
          /\ UpdateFields(Script, [sampling_active |-> TRUE])
          /\ dpc' = "rerun"
     ELSE /\ dpc' = "check"
          /\ UNCHANGED <<sampling_active, storeVars>>
  /\ UNCHANGED <<pressed, click, sampled>>

\* st.rerun() (lines 326, 331), once update_shared_state has returned
Rerun ==
  /\ dpc = "rerun"
  /\ pc[Script] = "idle"
  /\ StartRun
  /\ UNCHANGED <<sampling_active, sampled>>

\* line 435: a sampling iteration starts, or the run ends
SamplingCheck ==
  /\ dpc = "check"
  /\ IF sampling_active
     THEN /\ dpc' = "capturing"
          /\ sampled' = TRUE
     ELSE /\ dpc' = "waiting"
          /\ UNCHANGED sampled
  /\ UNCHANGED <<sampling_active, pressed, click>>

\* capture_and_analyze, lines 84-133: the sample is taken and written to
\* the store (the call returns in UpdateTruncate)
CaptureAndAnalyze(sample) ==
  /\ dpc = "capturing"
  /\ IF sample.ok
     THEN /\ UpdateFields(Script,
                          [state |-> SampleState(sample.focus_score),
                           latest_analysis |-> "analysis",
                           focus_score |-> sample.focus_score])
          /\ dpc' = IF SampleState(sample.focus_score) = "RED"
                    THEN "mind" ELSE "sleeping"
     ELSE /\ dpc' = "sleeping"
          /\ UNCHANGED storeVars
  /\ UNCHANGED <<sampling_active, pressed, click, sampled>>

\* trigger_mind_response (lines 136-137, 145-172): a non-empty response is
\* written to the store
TriggerMindResponse(text) ==
  /\ dpc = "mind"
  /\ pc[Script] = "idle"
  /\ IF text # ""
     THEN UpdateFields(Script, [last_response |-> text])
     ELSE UNCHANGED storeVars
  /\ dpc' = "sleeping"
  /\ UNCHANGED <<sampling_active, pressed, click, sampled>>

\* lines 438-439: time.sleep(10) and st.rerun()
SleepAndRerun ==
  /\ dpc = "sleeping"
  /\ pc[Script] = "idle"
  /\ StartRun
  /\ UNCHANGED <<sampling_active, sampled>>

NextDashboard ==
  \/ (\E w \in Widgets : Press(w)) /\ UNCHANGED <<storeVars, notDash>>
  \/ RunOnPress /\ UNCHANGED <<storeVars, notDash>>
  \/ SamplingButton /\ UNCHANGED notDash
  \/ Rerun /\ UNCHANGED <<storeVars, notDash>>
  \/ SamplingCheck /\ UNCHANGED <<storeVars, notDash>>
  \/ (\E sample \in Samples : CaptureAndAnalyze(sample)) /\ UNCHANGED notDash
  \/ (\E text \in MindResponses : TriggerMindResponse(text))
       /\ UNCHANGED notDash
  \/ SleepAndRerun /\ UNCHANGED <<storeVars, notDash>>
  \/ UpdateEvent(Script) /\ UNCHANGED <<dashVars, notDash>>
  \/ UpdateTruncate(Script) /\ UNCHANGED <<dashVars, notDash>>

(* the sampling loop joined with the classifier ****************************)
\* time.sleep(10) between two sampling iterations
SleepSeconds == 10

\* trigger_mind_response with the backend answering: /mind/evaluate runs
\* evaluate on the analysis of this iteration, whose score line 131 has just
\* written to the store, with the persona of the session; line 158 reads
\* the response and lines 160-169 store it unless it is null or empty
MindEvaluate ==
  /\ dpc = "mind"
  /\ pc[Script] = "idle"
  /\ Evaluate([present |-> TRUE, focus_score |-> shared.focus_score],
              shared.persona)
  /\ IF HasResponseText(result')
     THEN UpdateFields(Script, [last_response |-> result'.response])
     ELSE UNCHANGED storeVars
  /\ dpc' = "sleeping"
  /\ UNCHANGED <<sampling_active, pressed, click, sampled>>

\* trigger_mind_response with the request failing or timing out
\* (lines 171-172): nothing is evaluated and nothing is stored
MindUnreachable ==
  /\ dpc = "mind"
  /\ pc[Script] = "idle"
  /\ dpc' = "sleeping"
  /\ UNCHANGED <<sampling_active, pressed, click, sampled>>

(***************************************************************************)
(* POST /mind/evaluate under the threaded server (mind/routes.py)          *)
(***************************************************************************)
\* JSON bodies of POST /mind/evaluate: trigger_mind_response posts the
\* analysis of a RED sample with the selected persona (app.py:148-153)
MindBodies ==
  {[analysis |-> [present |-> TRUE, focus_score |-> s], persona |-> "Hal"] :
     s \in {10, 40}}

NoLocals == [self |-> None]

\* FocusEvaluator.__init__, lines 27-35
NewEvaluator ==
  [current_state |-> "GREEN", last_score |-> None, yellow_since |-> None,
   last_response_time |-> None]

InitBackend ==
  /\ evaluator_ref = None
  /\ instances = <<>>
  /\ bpc = [t \in Threads |-> "idle"]
  /\ bloc = [t \in Threads |-> NoLocals]
  /\ bops = 0
  /\ got = {}
  /\ gen_log = <<>>

\* routes.py:24-26: a request without data is answered 400
RouteNoData(t) ==
  /\ bpc[t] = "idle"
  /\ bops < MaxOps
  /\ bops' = bops + 1
  /\ UNCHANGED <<evaluator_ref, instances, bpc, bloc, got, gen_log>>

\* routes.py:24-30: the request's analysis and persona are read
RouteEvaluate(t, data) ==
  /\ bpc[t] = "idle"
  /\ bops < MaxOps
  /\ bops' = bops + 1
  /\ bloc' = [bloc EXCEPT ![t] =
                [self |-> None, analysis |-> data.analysis,
                 persona |-> data.persona]]
  /\ bpc' = [bpc EXCEPT ![t] = "get"]
  /\ UNCHANGED <<evaluator_ref, instances, got, gen_log>>

\* get_evaluator, line 17: `if _evaluator is None`
GetEvaluatorCheck(t) ==
  /\ bpc[t] = "get"
  /\ bpc' = [bpc EXCEPT ![t] =
               IF evaluator_ref = None THEN "construct" ELSE "return"]
  /\ UNCHANGED <<evaluator_ref, instances, bloc, bops, got, gen_log>>

\* get_evaluator, line 18: FocusEvaluator() is constructed and assigned to
\* the global
GetEvaluatorConstruct(t) ==
  /\ bpc[t] = "construct"
  /\ instances' = Append(instances, NewEvaluator)
  /\ evaluator_ref' = Len(instances) + 1
  /\ bpc' = [bpc EXCEPT ![t] = "return"]
  /\ UNCHANGED <<bloc, bops, got, gen_log>>

\* get_evaluator, line 19, and routes.py:32
GetEvaluatorReturn(t) ==
  /\ bpc[t] = "return"
  /\ bloc' = [bloc EXCEPT ![t].self = evaluator_ref]
  /\ got' = got \cup {evaluator_ref}
  /\ bpc' = [bpc EXCEPT ![t] = "classify"]
  /\ UNCHANGED <<evaluator_ref, instances, bops, gen_log>>

\* the handler returns its response
RouteReturn(t) ==
  /\ bpc' = [bpc EXCEPT ![t] = "idle"]
  /\ bloc' = [bloc EXCEPT ![t] = NoLocals]

\* evaluate, lines 72-97, on the instance get_evaluator returned
EvaluateClassify(t) ==
  LET self == instances[bloc[t].self]
      analysis == bloc[t].analysis
      focus_score == IF analysis.present THEN analysis.focus_score ELSE 50
      new_state == Classify(focus_score, green_threshold, yellow_threshold)
  IN  /\ bpc[t] = "classify"
      /\ instances' =
           [instances EXCEPT ![bloc[t].self] =
              [current_state |-> new_state,
               last_score |-> focus_score,
               yellow_since |-> YellowSince(new_state, self.current_state,
                                            self.yellow_since, now),
               last_response_time |-> self.last_response_time]]
      /\ IF new_state = "RED"
         THEN /\ bpc' = [bpc EXCEPT ![t] = "gate"]
              /\ UNCHANGED bloc
         ELSE RouteReturn(t)
      /\ UNCHANGED <<evaluator_ref, bops, got, gen_log>>

\* evaluate, lines 100-101: _should_generate_response reads
\* last_response_time and the clock
EvaluateGate(t) ==
  LET self == instances[bloc[t].self]
  IN  /\ bpc[t] = "gate"
      /\ IF ShouldGenerateResponse(self.last_response_time, now)
         THEN /\ bpc' = [bpc EXCEPT ![t] = "generate"]
              /\ bloc' = [bloc EXCEPT ![t] =
                            [self |-> bloc[t].self,
                             analysis |-> bloc[t].analysis,
                             persona |-> bloc[t].persona,
                             seen |-> self.last_response_time]]
         ELSE RouteReturn(t)
      /\ UNCHANGED <<evaluator_ref, instances, bops, got, gen_log>>

\* evaluate, lines 102-103: _generate_response calls the text model
EvaluateGenerate(t, outcome) ==
  /\ bpc[t] = "generate"
  /\ bloc' = [bloc EXCEPT ![t] =
                [self |-> bloc[t].self,
                 persona |-> bloc[t].persona,
                 seen |-> bloc[t].seen,
                 response |-> GenerateResponse(outcome, bloc[t].persona)]]
  /\ bpc' = [bpc EXCEPT ![t] = "stamp"]
  /\ UNCHANGED <<evaluator_ref, instances, bops, got, gen_log>>

\* evaluate, line 104, and the result is returned
EvaluateStamp(t) ==
  /\ bpc[t] = "stamp"
  /\ instances' = [instances EXCEPT ![bloc[t].self].last_response_time = now]
  /\ gen_log' = Append(gen_log, [inst |-> bloc[t].self, seen |-> bloc[t].seen])
  /\ RouteReturn(t)
  /\ UNCHANGED <<evaluator_ref, bops, got>>

NextBackend ==
  \/ (\E t \in Threads : RouteNoData(t)) /\ UNCHANGED notBack
  \/ (\E t \in Threads, d \in MindBodies : RouteEvaluate(t, d))
       /\ UNCHANGED notBack
  \/ (\E t \in Threads : GetEvaluatorCheck(t)) /\ UNCHANGED notBack
  \/ (\E t \in Threads : GetEvaluatorConstruct(t)) /\ UNCHANGED notBack
  \/ (\E t \in Threads : GetEvaluatorReturn(t)) /\ UNCHANGED notBack
  \/ (\E t \in Threads : EvaluateClassify(t)) /\ UNCHANGED notBack
  \/ (\E t \in Threads : EvaluateGate(t)) /\ UNCHANGED notBack
  \/ (\E t \in Threads, o \in Outcomes : EvaluateGenerate(t, o))
       /\ UNCHANGED notBack
  \/ (\E t \in Threads : EvaluateStamp(t)) /\ UNCHANGED notBack
  \/ (\E delta \in Deltas : Tick(delta)) /\ UNCHANGED notEval


NextStore ==
  \/ (\E t \in Threads, u \in Updates : UpdateFields(t, u)) /\ UNCHANGED <<resp, notStore>>
  \/ (\E t \in Threads : UpdateEvent(t)) /\ UNCHANGED <<resp, notStore>>
  \/ (\E t \in Threads : UpdateTruncate(t)) /\ UNCHANGED <<resp, notStore>>
  \/ (\E t \in Threads : GetSharedState(t)) /\ UNCHANGED <<resp, notStore>>
  \/ (\E t \in Threads : ReleaseSnapshot(t)) /\ UNCHANGED <<resp, notStore>>
  \/ (\E t \in Threads, d \in StatusBodies : StatusFieldsStep(t, d)) /\ UNCHANGED <<resp, notStore>>
  \/ (\E t \in Threads : StatusStamp(t)) /\ UNCHANGED <<resp, notStore>>
  \/ (\E t \in Threads : StatusAppend(t)) /\ UNCHANGED <<resp, notStore>>
  \/ (\E t \in Threads : StatusTruncate(t)) /\ UNCHANGED notStore
  \/ (\E t \in Threads, d \in LogBodies : LogStamp(t, d)) /\ UNCHANGED <<resp, notStore>>
  \/ (\E t \in Threads : LogAppend(t)) /\ UNCHANGED <<resp, notStore>>
  \/ (\E t \in Threads : LogTruncate(t)) /\ UNCHANGED notStore
  \/ (\E t \in Threads, d \in HistoryBodies : HistoryStamp(t, d)) /\ UNCHANGED <<resp, notStore>>
  \/ (\E t \in Threads : HistoryAppend(t)) /\ UNCHANGED <<resp, notStore>>
  \/ (\E t \in Threads : HistoryTruncate(t)) /\ UNCHANGED notStore
  \/ (\E t \in Threads, b \in BadBodies : StatusBadBody(t, b))
       /\ UNCHANGED notStore
  \/ (\E t \in Threads, b \in BadBodies : LogBadBody(t, b))
       /\ UNCHANGED notStore
  \/ (\E t \in Threads, b \in BadBodies : HistoryBadBody(t, b))
       /\ UNCHANGED notStore

NextEval ==
  \/ (\E a \in Analyses, p \in Personas : Evaluate(a, p))
       /\ UNCHANGED notEval
  \/ (\E delta \in Deltas : Tick(delta)) /\ UNCHANGED notEval

Init == InitEvaluator /\ InitStore /\ InitBackend /\ InitDashboard

\* the evaluator under a single caller, with the clock advancing
SpecEval == Init /\ [][NextEval]_vars

\* the analysis -> evaluation pipeline at one sitting of the clock
NextClassify ==
  \/ (\E raw \in RawTexts : Analyze(raw)) /\ UNCHANGED notEval
  \/ (\E p \in Personas : EvaluateAnalysis(p)) /\ UNCHANGED notEval
  \/ (\E a \in Analyses, p \in Personas : Evaluate(a, p))
       /\ UNCHANGED notEval

SpecClassify == Init /\ [][NextClassify]_vars

\* the store under concurrent readers and writers
SpecStore == Init /\ [][NextStore]_vars

\* the store with the wall clock advancing between the steps of its
\* handlers (datetime.now(), api_server.py:45, 79, 96)
StoreDeltas == {30}

NextStoreClock ==
  \/ NextStore
  \/ (\E delta \in StoreDeltas : Tick(delta)) /\ UNCHANGED notEval

SpecStoreClock == Init /\ [][NextStoreClock]_vars

\* the dashboard session: its script runs and the user's presses
SpecDashboard == Init /\ [][NextDashboard]_vars

\* the backend's handler threads serving POST /mind/evaluate concurrently
SpecBackend == Init /\ [][NextBackend]_vars

\* one dashboard session sampling against a backend that serves only it
NextSampling ==
  \/ (\E w \in Widgets : Press(w)) /\ UNCHANGED <<storeVars, notDash>>
  \/ RunOnPress /\ UNCHANGED <<storeVars, notDash>>
  \/ SamplingButton /\ UNCHANGED notDash
  \/ Rerun /\ UNCHANGED <<storeVars, notDash>>
  \/ SamplingCheck /\ UNCHANGED <<storeVars, notDash>>
  \/ (\E sample \in Samples : CaptureAndAnalyze(sample)) /\ UNCHANGED notDash
  \/ MindEvaluate /\ UNCHANGED <<resp, backVars>>
  \/ MindUnreachable /\ UNCHANGED <<storeVars, notDash>>
  \/ SleepAndRerun /\ Tick(SleepSeconds)
       /\ UNCHANGED <<storeVars, resp, backVars>>
  \/ UpdateEvent(Script) /\ UNCHANGED <<dashVars, notDash>>
  \/ UpdateTruncate(Script) /\ UNCHANGED <<dashVars, notDash>>

SpecSampling == Init /\ [][NextSampling]_vars

(***************************************************************************)
(* Properties of the classifier                                            *)
(***************************************************************************)
\* the three bands of spec section 8, a threshold value in the higher band
InBand(state, s, green, yellow) ==
  /\ s >= green => state = "GREEN"
  /\ (yellow <= s /\ s < green) => state = "YELLOW"
  /\ s < yellow => state = "RED"

ParseFailed == parse_result.observations = "Failed to parse analysis"

\* C1: with yellow_threshold < green_threshold, a classification step gives
\* GREEN for s >= green_threshold, YELLOW for yellow_threshold <= s <
\* green_threshold and RED below, a threshold value falling in the higher
\* band: for the state returned by evaluate, whatever the evaluator's state
\* was before, and for the state _parse_analysis computes from its score.
C1_Classification ==
  /\ yellow_threshold < green_threshold
  /\ result # NoResult =>
       InBand(result.state, result.focus_score, green_threshold, yellow_threshold)
  /\ (parse_result # NoAnalysis /\ ~ParseFailed) =>
       InBand(parse_result.state, parse_result.focus_score,
              green_threshold, yellow_threshold)

\* a score equal to green_threshold evaluated while the evaluator was RED,
\* and a parsed score equal to yellow_threshold
C1_Witness ==
  /\ result.focus_score = green_threshold
  /\ result.state = "GREEN"
  /\ result.previous_state = "RED"
  /\ parse_result.focus_score = yellow_threshold
  /\ parse_result.state = "YELLOW"

HasText(r) == r.response # NullResponse

\* two RED evaluations in a row: the step from the first's result to the
\* second's
ConsecutiveRed ==
  /\ op' = "evaluate"
  /\ result.state = "RED"
  /\ result'.state = "RED"

\* C2 as stated, taking the first evaluation to be one that returned action
\* text: of two consecutive RED evaluations called less than action_cooldown
\* apart only the first returns action text; called at least action_cooldown
\* apart, both return action text.
C2_AsStated ==
  [][(ConsecutiveRed /\ HasText(result)) =>
       /\ called_at' - called_at < response_cooldown => ~HasText(result')
       /\ called_at' - called_at >= response_cooldown => HasText(result')]_vars

\* C2 amended: of two consecutive RED evaluations the first of which
\* returned action text, the second returns none when called less than
\* action_cooldown after the first was called, and returns action text
\* exactly when called at least action_cooldown after the first's text was
\* produced (last_response_time).
C2_Cooldown ==
  [][(ConsecutiveRed /\ HasText(result)) =>
       /\ called_at' - called_at < response_cooldown => ~HasText(result')
       /\ HasText(result') <=>
            called_at' - last_response_time >= response_cooldown]_vars

\* a RED evaluation right after a RED one, inside the cooldown, without text
C2_Witness ==
  /\ op = "evaluate"
  /\ result.state = "RED"
  /\ result.previous_state = "RED"
  /\ ~HasText(result)
  /\ last_response_time # None
  /\ called_at - last_response_time < response_cooldown

\* C3: thresholds 50/25, cooldown 30 s, a fresh evaluator: scores
\* 80, 40, 10, 10 at t = 0, 10, 20, 25 give GREEN, YELLOW, RED, RED with
\* action text at t = 20 and none at t = 25; score 10 at t = 55 gives action
\* text again.
C3_Scenario ==
  (green_threshold = 50 /\ yellow_threshold = 25) =>
    /\ scn = 1 => result.state = "GREEN"
    /\ scn = 2 => result.state = "YELLOW"
    /\ scn = 3 => (result.state = "RED" /\ HasText(result))
    /\ scn = 4 => (result.state = "RED" /\ ~HasText(result))
    /\ scn = 5 => (result.state = "RED" /\ HasText(result))

\* the fifth evaluation of the scenario has returned
C3_Witness ==
  /\ green_threshold = 50
  /\ yellow_threshold = 25
  /\ scn = 5
  /\ called_at = 55
  /\ HasText(result)

\* C4: evaluate returns action text only with state RED and, at the time of
\* the call, either no action generated so far or at least action_cooldown
\* since last_response_time; never with GREEN or YELLOW.
C4_TextOnlyWhenGated ==
  [][(op' = "evaluate" /\ HasText(result')) =>
       /\ result'.state = "RED"
       /\ \/ last_response_time = None
          \/ called_at' - last_response_time >= response_cooldown]_vars

\* action text returned by a RED evaluation one full cooldown after the
\* previous text
C4_Witness ==
  /\ op = "evaluate"
  /\ result.state = "RED"
  /\ HasText(result)
  /\ called_at >= response_cooldown

\* C5 as stated: a RED evaluation that passes the gate sets
\* last_response_time to the time the gate was checked against.
C5_AsStated ==
  [][(op' = "evaluate" /\ HasText(result')) =>
       last_response_time' = called_at']_vars

\* C5 amended: a RED evaluation that passes the gate sets last_response_time
\* to the clock read once the action text has been generated, which is at or
\* after the time the gate was checked against; the next cooldown window is
\* measured from the end of the generation.
C5_StampedAfterGeneration ==
  [][(op' = "evaluate" /\ HasText(result')) =>
       /\ last_response_time' = now'
       /\ last_response_time' >= called_at']_vars

\* a gated evaluation whose text generation took time
C5_Witness ==
  /\ op = "evaluate"
  /\ HasText(result)
  /\ last_response_time = now
  /\ last_response_time > called_at

(***************************************************************************)
(* Properties of the shared state store                                    *)
(***************************************************************************)
\* what the holder of a snapshot sees when it reads the snapshot's lists
SnapEvents(t) == heap[snap[t].events]
SnapHistory(t) == heap[snap[t].focus_history]

\* the snapshot's events hold the entry of a state update whose write of
\* "state" the snapshot's state field does not have
EventWithoutState(t) ==
  \E i \in DOMAIN SnapEvents(t) :
    /\ SnapEvents(t)[i].st
    /\ SnapEvents(t)[i].by > snap_taken[t].state_writer

\* the snapshot's state field was written by an update whose entry had not
\* been appended when the snapshot was taken
StateWithoutEvent(t) ==
  /\ snap_taken[t].state_writer # 0
  /\ \A i \in 1..snap_taken[t].appended :
       log_all[i].by # snap_taken[t].state_writer

\* C6: no reader of the store holds a snapshot whose events contain the
\* "State changed to X" entry of an update while its state field is still the
\* old value, or whose state field is the new value while that update's
\* entry is missing, for update_shared_state and POST /status alike.
C6_AsStated ==
  \A t \in Threads :
    pc[t] = "holding" => (~EventWithoutState(t) /\ ~StateWithoutEvent(t))

\* C7: the contents of a snapshot get_shared_state has returned are not
\* changed by a later update of the store.
C7_AsStated ==
  \A t \in Threads :
    pc[t] = "holding" =>
      /\ SnapEvents(t) = snap_taken[t].events
      /\ SnapHistory(t) = snap_taken[t].focus_history

LastN(seq, n) ==
  [i \in 1..Min(n, Len(seq)) |-> seq[Len(seq) - Min(n, Len(seq)) + i]]

StoreEvents == heap[shared.events]
StoreHistory == heap[shared.focus_history]

\* C8: whenever the store is not inside a critical section, events and
\* focus_history hold at most the capacity N, and they are the N most
\* recently appended entries (all of them while fewer were appended), in the
\* order of their insertion.
C8_BoundedFifo ==
  lock = Free =>
    /\ Len(StoreEvents) <= MaxHistory
    /\ Len(StoreHistory) <= MaxHistory
    /\ StoreEvents = LastN(log_all, MaxHistory)
    /\ StoreHistory = LastN(hist_all, MaxHistory)

\* more than N events were appended and the oldest was dropped
C8_Witness ==
  /\ lock = Free
  /\ Len(log_all) = MaxHistory + 1
  /\ Len(StoreEvents) = MaxHistory
  /\ StoreEvents[1] = log_all[2]

AppendedBy(log, id) == Cardinality({i \in DOMAIN log : log[i].by = id})

\* the keys an update or a POST /status body asks to write
Requested(r) ==
  IF r.op = "update" THEN DOMAIN r.data ELSE DOMAIN StatusFields(r.data)

\* C9: update_shared_state and POST /status change only fields of the store
\* that the request names, add no key, and append exactly one entry to
\* events when the request carries "state" and none when it does not.
C9_AsStated ==
  [][\A t \in Threads :
       /\ (pc[t] = "idle" /\ pc'[t] \in {"upd_event", "st_stamp"}) =>
            /\ DOMAIN shared' = DOMAIN shared
            /\ \A k \in DOMAIN shared :
                 shared'[k] # shared[k] => k \in Requested(req'[t])
       /\ (pc[t] \in {"upd_event", "upd_trunc", "st_trunc"} /\ pc'[t] = "idle") =>
            AppendedBy(log_all', oid[t]) =
              (IF Has(req[t].data, "state") THEN 1 ELSE 0)]_vars

\* the store with its two lists read out
StoreValue ==
  [fields |-> [k \in DOMAIN serial.fields |-> shared[k]],
   events |-> StoreEvents,
   focus_history |-> StoreHistory]

\* C10: concurrent writers (update_shared_state, POST /log,
\* POST /focus-history) leave the store as a serial execution of their
\* critical sections in lock order leaves it: the last write of a field
\* wins, and while the capacity is not exceeded every appended event and
\* history entry is present.
C10_SerialOutcome ==
  lock = Free =>
    /\ StoreValue = serial
    /\ Len(log_all) <= MaxHistory => StoreEvents = log_all
    /\ Len(hist_all) <= MaxHistory => StoreHistory = hist_all

\* an update_shared_state call and a POST /log raced: the log request was
\* taken up first and appended last, and both entries and both field writes
\* are in the store
C10_Witness ==
  /\ lock = Free
  /\ \A t \in Threads : pc[t] = "idle"
  /\ Len(StoreEvents) = 2
  /\ StoreEvents[1].message = <<"State changed to", "RED">>
  /\ StoreEvents[2].message = <<"spoke">>
  /\ StoreEvents[1].by > StoreEvents[2].by
  /\ shared.state = "RED"
  /\ shared.last_response = "Back to work"

(***************************************************************************)
(* Properties of the Score Parser                                          *)
(***************************************************************************)
\* C13: for every raw text _parse_analysis returns an integer score in
\* [0, 100]; a structured or bare value below 0 comes back as 0, one above
\* 100 as 100, one in range unchanged, on every path.
C13_ScoreClamped ==
  [][op' = "analyze" =>
     \A raw \in RawTexts :
       Analyze(raw) =>
         /\ parse_result'.focus_score \in 0..100
         /\ raw.kind \in {"json_int", "bare"} =>
              /\ raw.value < 0 => parse_result'.focus_score = 0
              /\ raw.value > 100 => parse_result'.focus_score = 100
              /\ raw.value \in 0..100 => parse_result'.focus_score = raw.value]_vars

\* a structured score of 150 has been parsed to 100
C13_Witness ==
  /\ op = "analyze"
  /\ parse_result.focus_score = 100
  /\ parse_result.observations = "given observations"

\* raw texts without a usable score: prose, or a step that throws
Unparseable == {raw \in RawTexts :
                  raw.kind \in {"prose", "json_invalid", "json_badscore"}}

\* C14 as stated: prose without a number, or a parse step that throws,
\* gives score 50 with the fixed parse-failure observation.
C14_AsStated ==
  [][op' = "analyze" =>
     \A raw \in Unparseable :
       Analyze(raw) =>
         /\ parse_result'.focus_score = 50
         /\ parse_result'.observations = "Failed to parse analysis"]_vars

\* C14: the parser always returns a result; a parse step that throws gives
\* score 50 with the fixed parse-failure observation, and prose without a
\* structured object or number gives score 50 with the prefix of the raw
\* text as observation.
C14_ParseFallback ==
  [][op' = "analyze" =>
     \A raw \in RawTexts :
       Analyze(raw) =>
         /\ parse_result' # NoAnalysis
         /\ raw.kind \in {"json_invalid", "json_badscore"} =>
              /\ parse_result'.focus_score = 50
              /\ parse_result'.observations = "Failed to parse analysis"
         /\ raw.kind = "prose" =>
              /\ parse_result'.focus_score = 50
              /\ parse_result'.observations = "result_text[:200]"]_vars

\* a parse step has thrown
C14_Witness ==
  /\ op = "analyze"
  /\ ParseFailed
  /\ parse_result.focus_score = 50

\* "the user seems okay": no structured object, no number
SeemsOkay == [kind |-> "prose", value |-> 0, has_obs |-> FALSE]

DefaultThresholds == green_threshold = 50 /\ yellow_threshold = 25

\* C15 as stated: with thresholds 50 and 25, "the user seems okay" is
\* parsed to score 50 and classified YELLOW.
C15_AsStated ==
  [][(DefaultThresholds /\ Analyze(SeemsOkay)) =>
       /\ parse_result'.focus_score = 50
       /\ parse_result'.state = "YELLOW"]_vars

\* C15: with thresholds 50 and 25, "the user seems okay" is parsed to score
\* 50 and classified GREEN, by _parse_analysis and by the evaluate call that
\* is given the parsed score.
C15_SeemsOkayGreen ==
  [][/\ (DefaultThresholds /\ Analyze(SeemsOkay)) =>
          /\ parse_result'.focus_score = 50
          /\ parse_result'.state = "GREEN"
     /\ (/\ DefaultThresholds
         /\ parse_result = ParseAnalysis(SeemsOkay, 50, 25)
         /\ \E p \in Personas : EvaluateAnalysis(p)) =>
          /\ result'.focus_score = 50
          /\ result'.state = "GREEN"]_vars

\* the text has been parsed and its score evaluated
C15_Witness ==
  /\ DefaultThresholds
  /\ parse_result.observations = "result_text[:200]"
  /\ parse_result.focus_score = 50
  /\ parse_result.state = "GREEN"
  /\ op = "evaluate"
  /\ result.focus_score = 50
  /\ result.state = "GREEN"

(***************************************************************************)
(* Properties of evaluate: fallback phrases and frame effect               *)
(***************************************************************************)
\* the text came from _fallback_response: the action-text call has failed
FromFallback(r) == r.response \notin {NullResponse, "generated text.", ""}

\* C17: when the action-text call fails in a gated RED evaluation, the
\* result carries the fallback phrase of the selected persona, for the
\* personas as the interface names them ("Hal" has the phrase of key "hal"),
\* and the default sentence only for a persona that is not known.
C17_AsStated ==
  FromFallback(result) =>
    result.response = FallbackResponse(normalize_voice_name(result.persona))

\* C20: every evaluate call sets last_score to the given score (50 when the
\* analysis has none) and current_state to the state of that score, gated
\* or not, text or not, and returns as previous_state the value
\* current_state had before the call.
C20_FrameEffect ==
  [][op' = "evaluate" =>
       /\ last_score' = result'.focus_score
       /\ \A a \in Analyses, p \in Personas :
            Evaluate(a, p) =>
              last_score' = IF a.present THEN a.focus_score ELSE 50
       /\ current_state' = result'.state
       /\ InBand(current_state', last_score', green_threshold, yellow_threshold)
       /\ result'.previous_state = current_state]_vars

\* a RED evaluation within the cooldown of an earlier one: no text, and the
\* state and score are set all the same
C20_Witness ==
  /\ op = "evaluate"
  /\ result.state = "RED"
  /\ result.previous_state = "YELLOW"
  /\ result.response = NullResponse
  /\ last_response_time # None
  /\ current_state = "RED"
  /\ last_score = result.focus_score

(***************************************************************************)
(* Properties of the store's HTTP surface                                  *)
(***************************************************************************)
\* C16: POST /status, POST /log and POST /focus-history answer a request
\* whose JSON body is absent or malformed with a 4xx response, leaving every
\* store field unchanged and the store lock released.
C16_AsStated ==
  [][\A t \in Threads, b \in BadBodies :
       (StatusBadBody(t, b) \/ LogBadBody(t, b) \/ HistoryBadBody(t, b)) =>
         /\ resp'.code \in 400..499
         /\ UNCHANGED <<shared, heap>>
         /\ lock' = Free]_vars

\* C18: the entries of events are in time order for any interleaving of
\* update_shared_state, POST /status and POST /log: a later entry never
\* carries an earlier timestamp than an entry before it.
C18_AsStated ==
  \A i, j \in 1..Len(StoreEvents) :
    i < j => StoreEvents[i].timestamp <= StoreEvents[j].timestamp

(***************************************************************************)
(* Properties of the sampling loop                                         *)
(***************************************************************************)
\* a sampling iteration (capture_and_analyze) starts in this step
IterationStarts == dpc # "capturing" /\ dpc' = "capturing"

\* C19: once sampling_active is cleared no sampling iteration starts until
\* it is set again: an iteration starts only while the flag is set, in the
\* store and in the session.
C19_NoIterationWhenCleared ==
  [][IterationStarts =>
       /\ shared.sampling_active = TRUE
       /\ sampling_active = TRUE]_vars

\* sampling has run, Stop was pressed, and the script has come to rest with
\* the flag cleared while another press is pending
C19_Witness ==
  /\ sampled
  /\ shared.sampling_active = FALSE
  /\ sampling_active = FALSE
  /\ dpc = "waiting"
  /\ StoreEvents # <<>>
  /\ click = "other"

(***************************************************************************)
(* Properties of the backend under concurrent requests                     *)
(***************************************************************************)
\* C11: the classifier is invoked under mutual exclusion, so concurrent
\* POST /mind/evaluate requests never both pass the cooldown check against
\* the same last_response_time of the same evaluator and both generate an
\* action.
C11_AsStated ==
  \A i, j \in 1..Len(gen_log) :
    (i # j /\ gen_log[i].inst = gen_log[j].inst) =>
      gen_log[i].seen # gen_log[j].seen

\* C12: for any interleaving of requests that call get_evaluator, at most
\* one FocusEvaluator is ever constructed and every call returns the same
\* instance.
C12_AsStated ==
  /\ Len(instances) <= 1
  /\ Cardinality(got) <= 1

(***************************************************************************)
(* Properties of the yellow-entry timestamp and of the cooldown            *)
(***************************************************************************)
\* C21: in evaluate, a GREEN result clears the yellow-entry timestamp; a
\* YELLOW result sets it to the current time only when the state before the
\* call was GREEN and otherwise leaves it unchanged; a RED result leaves it
\* unchanged.
C21_YellowSinceBookkeeping ==
  [][op' = "evaluate" =>
       /\ result'.state = "GREEN" => yellow_since' = None
       /\ (result'.state = "YELLOW" /\ current_state = "GREEN") =>
            yellow_since' = called_at'
       /\ (result'.state = "YELLOW" /\ current_state # "GREEN") =>
            yellow_since' = yellow_since
       /\ result'.state = "RED" => yellow_since' = yellow_since]_vars

\* a YELLOW result after an earlier YELLOW one: the timestamp of the entry
\* is older than the call and has been kept
C21_Witness ==
  /\ op = "evaluate"
  /\ result.state = "YELLOW"
  /\ result.previous_state = "YELLOW"
  /\ yellow_since # None
  /\ yellow_since < called_at

\* C22: for one caller issuing evaluate calls one after another, with any
\* scores and any GREEN/YELLOW/RED states in between, a call that returns
\* action text starts at least response_cooldown seconds after the previous
\* such call returned: last_response_time is the time that call returned, it
\* is left alone by every call without text, whatever the state, and the
\* gate measures against it.
C22_CooldownAcrossStates ==
  [][op' = "evaluate" =>
       /\ HasText(result') =>
            /\ last_response_time' = now'
            /\ last_response_time # None =>
                 called_at' - last_response_time >= response_cooldown
       /\ ~HasText(result') => last_response_time' = last_response_time]_vars

\* RED was left and entered again inside the cooldown of an earlier action:
\* the call returns no text
C22_Witness ==
  /\ op = "evaluate"
  /\ result.state = "RED"
  /\ result.previous_state # "RED"
  /\ ~HasText(result)
  /\ last_response_time # None
  /\ called_at - last_response_time < response_cooldown

\* C23 as stated: in every state of the classifier, current_state = YELLOW
\* implies that yellow_since is set, and current_state = GREEN implies that
\* it is null.
C23_AsStated ==
  /\ current_state = "YELLOW" => yellow_since # None
  /\ current_state = "GREEN" => yellow_since = None

\* C23: in every state of the classifier, current_state = GREEN implies that
\* yellow_since is null, and current_state = YELLOW implies that
\* yellow_since is set when YELLOW was entered from GREEN or the timestamp
\* was set before the last call; YELLOW entered from RED with no timestamp
\* keeps a null one.
C23_YellowSinceByEntry ==
  /\ current_state = "GREEN" => yellow_since = None
  /\ (current_state = "YELLOW" /\ result # NoResult
        /\ result.previous_state = "GREEN") =>
       yellow_since # None
  /\ (current_state = "YELLOW" /\ yellow_since = None) =>
       /\ result # NoResult
       /\ result.previous_state # "GREEN"

\* both cases after evaluate calls: YELLOW entered from GREEN carries a
\* timestamp
C23_Witness ==
  /\ op = "evaluate"
  /\ current_state = "YELLOW"
  /\ result.previous_state = "GREEN"
  /\ yellow_since = called_at
  /\ last_score < green_threshold

(***************************************************************************)
(* Properties that join the analyzer, the classifier and the dashboard     *)
(***************************************************************************)
\* C25 as stated: every analysis result carries a state equal to the
\* threshold classification of its own focus_score and a focused flag equal
\* to focus_score >= green_threshold, so the state the interface recomputes
\* from focus_score agrees with the state field of the analysis.
C25_AsStated ==
  parse_result # NoAnalysis =>
    /\ parse_result.state =
         ParseState(parse_result.focus_score, green_threshold,
                    yellow_threshold)
    /\ parse_result.focused = (parse_result.focus_score >= green_threshold)
    /\ SampleState(parse_result.focus_score) = parse_result.state

\* C26 as stated: whenever evaluate advances last_response_time, the action
\* text it returns is a non-empty string, so no evaluation starts a new
\* cooldown window while the interface, which skips empty text, delivers
\* no action.
C26_AsStated ==
  [][(op' = "evaluate" /\ last_response_time' # last_response_time) =>
       /\ HasText(result')
       /\ result'.response # ""]_vars

\* C24 as stated: after every completed sampling iteration the state kept by
\* the classifier (current_state, served by GET /mind/state) equals the
\* state written to the store for that sample.
C24_AsStated ==
  (dpc = "sleeping" /\ pc[Script] = "idle" /\ shared.focus_score # None) =>
    current_state = shared.state

====
